---- MODULE Spec2Model ----
(***************************************************************************)
(* The conversation-session store of ConversationalRAGSystem               *)
(* (01.LangChain-Howto/02.Build-a-RAG/conversational_rag.py): the          *)
(* in-memory dict of sessions, the wall clock its timestamps are read      *)
(* from, the sessions file written by save_sessions and read by            *)
(* load_sessions, and the conversational chain that query calls; the      *)
(* commands of conversational_cli.py that drive the store, alone and as    *)
(* two processes on one sessions file; the chat loop and the history file  *)
(* of simple-ollama-chat-cli.py; and the two-node graph of rag_system.py.  *)
(*                                                                         *)
(* Python values are modelled as follows.                                  *)
(*   str        a TLA+ string                                              *)
(*   datetime   an integer number of clock ticks; TicksPerSecond ticks     *)
(*              make one second, so a datetime has a whole-second part     *)
(*              and a sub-second part like seconds and microseconds        *)
(*   dict       self.sessions is a sequence of [key, session] entries in   *)
(*              insertion order (Python dicts iterate in that order)       *)
(*   metadata   a token naming the dict, or PyNone for None                 *)
(*   a file     [state, doc]: absent, invalid JSON, a partial write, a     *)
(*              JSON value that is no object, or a JSON object given as    *)
(*              the sequence doc of [key, data] members in file order,     *)
(*              where data is a record holding the fields that are present *)
(***************************************************************************)
EXTENDS Integers, Sequences, FiniteSets, TLC

VARIABLES
    sessions,            \* self.sessions
    conversation_chain,  \* self.conversation_chain: "None" or "chain"
    clock,               \* the latest wall-clock reading, in ticks
    disk,                \* the content of the sessions file
    result,              \* the last call: [op, sid, args, err, ret]
    calls,               \* the number of calls made so far
    pc,                  \* the position of the running command
    command,             \* the conversational CLI command: "chat" or "query"
    session,             \* its --session option, then the session in use
    prompt_line,         \* what its last read at the chat prompt gave
    console,             \* what it printed last
    procs,               \* the CLI processes that share the sessions file
    chat_history,        \* the history list of the simple chat
    history_file,        \* the content of chat_history.json
    state,               \* the RAGState of the running graph
    trace                \* the nodes of the graph that have run

storeVars == <<sessions, conversation_chain, clock, disk>>
cliVars   == <<command, session, prompt_line, console>>
chatVars  == <<chat_history, history_file>>
graphVars == <<state, trace>>

vars == <<sessions, conversation_chain, clock, disk, result, calls, pc,
          command, session, prompt_line, console, procs, chat_history,
          history_file, state, trace>>

-----------------------------------------------------------------------------
(* Bounds *)

\* the ticks of one second; the clock runs from tick 0 through the ticks of
\* second 0 to the first tick of second 1
TicksPerSecond == 2

\* the calls made in a run
MaxCalls == 3

\* the items of a list in a history file
MaxItems == 2

MaxClock == TicksPerSecond

-----------------------------------------------------------------------------
(* Inputs *)

PyNone == "None"

\* session ids a caller chooses
CallerIds == {"s1"}

\* the (role, content, metadata) arguments of add_message calls
MessageArgs ==
    { [role |-> "user",      content |-> "q", metadata |-> PyNone],
      [role |-> "assistant", content |-> "a", metadata |-> "{'k': 1}"],
      [role |-> "system",    content |-> "",  metadata |-> PyNone],
      [role |-> "user",      content |-> "q", metadata |-> "{'k': <object>}"] }

ValidRoles == {"user", "assistant"}

-----------------------------------------------------------------------------
(* The dict self.sessions *)

Keys(store) == { store[i].key : i \in DOMAIN store }

IndexOf(store, k) == CHOOSE i \in DOMAIN store : store[i].key = k

Get(store, k) == store[IndexOf(store, k)].session

\* an assignment that drops the other entries
PutAlone(store, k, v) == << [key |-> k, session |-> v] >>

\* store[k] = v: an existing key keeps its position, a new key goes last
Put(store, k, v) ==
    IF k \in Keys(store)
    THEN [store EXCEPT ![IndexOf(store, k)].session = v]
    ELSE Append(store, [key |-> k, session |-> v])

\* a del that removes nothing
DelNothing(store, k) == store

\* del store[k]
Del(store, k) == SelectSeq(store, LAMBDA e : e.key # k)

-----------------------------------------------------------------------------
(* The clock *)

\* the readings a call to datetime.now() or time.time() can return once the
\* clock has shown t: the clock does not run backwards
Later(t) == t .. MaxClock

\* int(time.time())
Seconds(t) == t \div TicksPerSecond

-----------------------------------------------------------------------------
(* create_session *)

NewSessionId(t) == "session_" \o ToString(Seconds(t))

\* the store after create_session(session_id) whose two datetime.now() calls
\* returned t1 and t2
CreateSessionIn(store, session_id, t1, t2) ==
    Put(store, session_id,
        [ session_id |-> session_id,
          messages   |-> <<>>,
          created_at |-> t1,
          updated_at |-> t2,
          metadata   |-> "{'model': model_name}" ])

\* create_session(session_id), session_id = PyNone when omitted
create_session(session_id) ==
    \E t0 \in Later(clock) : \E t1 \in Later(t0) : \E t2 \in Later(t1) :
        LET id == IF session_id = PyNone THEN NewSessionId(t0) ELSE session_id
        IN  /\ sessions' = CreateSessionIn(sessions, id, t1, t2)
            /\ clock' = t2
            /\ result' = [op |-> "create_session", sid |-> session_id,
                          args |-> PyNone, err |-> "none", ret |-> id]
            /\ UNCHANGED <<conversation_chain, disk>>

-----------------------------------------------------------------------------
(* list_sessions, delete_session *)

list_sessions(store) == [ i \in DOMAIN store |-> store[i].key ]

delete_session(session_id) ==
    /\ IF session_id \in Keys(sessions)
       THEN /\ sessions' = Del(sessions, session_id)
            /\ result' = [op |-> "delete_session", sid |-> session_id,
                          args |-> PyNone, err |-> "none", ret |-> TRUE]
       ELSE /\ sessions' = sessions
            /\ result' = [op |-> "delete_session", sid |-> session_id,
                          args |-> PyNone, err |-> "none", ret |-> FALSE]
    /\ UNCHANGED <<conversation_chain, clock, disk>>

-----------------------------------------------------------------------------
(* add_message, get_conversation_history *)

\* an insert at the front instead of an append
ListPrepend(messages, message) == <<message>> \o messages

\* list.append
ListAppend(messages, message) == Append(messages, message)

\* an append that leaves updated_at as it was
AddMessageInStale(store, session_id, role, content, metadata, t1, t2) ==
    LET s == Get(store, session_id)
        message == [ role |-> role, content |-> content,
                     timestamp |-> t1, metadata |-> metadata ]
    IN  Put(store, session_id,
            [s EXCEPT !.messages = Append(s.messages, message)])

\* the store after the append of add_message whose two datetime.now() calls
\* returned t1 and t2
AddMessageIn(store, session_id, role, content, metadata, t1, t2) ==
    LET s == Get(store, session_id)
        message == [ role |-> role, content |-> content,
                     timestamp |-> t1, metadata |-> metadata ]
    IN  Put(store, session_id,
            [s EXCEPT !.messages = ListAppend(s.messages, message),
                      !.updated_at = t2])

\* an add_message that creates the session it does not find
AddMessageCreating(store, session_id, role, content, metadata, t1, t2) ==
    [sessions |-> AddMessageIn(
                      IF session_id \in Keys(store) THEN store
                      ELSE CreateSessionIn(store, session_id, t1, t1),
                      session_id, role, content, metadata, t1, t2),
     err |-> "none"]

\* the store and the exception after add_message
AddMessage(store, session_id, role, content, metadata, t1, t2) ==
    IF session_id \notin Keys(store)
    THEN [sessions |-> store, err |-> "ValueError"]
    ELSE [sessions |-> AddMessageIn(store, session_id, role, content,
                                    metadata, t1, t2),
          err |-> "none"]

add_message(session_id, role, content, metadata) ==
    \E t1 \in Later(clock) : \E t2 \in Later(t1) :
        LET r == AddMessage(sessions, session_id, role, content, metadata,
                            t1, t2)
        IN  /\ sessions' = r.sessions
            /\ clock' = IF r.err = "none" THEN t2 ELSE clock
            /\ result' = [op |-> "add_message", sid |-> session_id,
                          args |-> [role |-> role, content |-> content,
                                    metadata |-> metadata],
                          err |-> r.err, ret |-> PyNone]
            /\ UNCHANGED <<conversation_chain, disk>>

\* the list get_conversation_history(session_id) returns
ConversationHistory(store, session_id) ==
    IF session_id \notin Keys(store)
    THEN <<>>
    ELSE Get(store, session_id).messages

\* a return of the session's own list
ListAlias(messages, session_id) ==
    [items |-> messages, shares |-> session_id]

\* list.copy(): a list object of its own holding the same items; shares names
\* the session whose messages list the object is, PyNone when it is no
\* session's list
ListCopy(messages, session_id) ==
    [items |-> messages, shares |-> PyNone]

\* the list object get_conversation_history(session_id) returns
ReturnedHistory(store, session_id) ==
    IF session_id \notin Keys(store)
    THEN [items |-> <<>>, shares |-> PyNone]
    ELSE ListCopy(Get(store, session_id).messages, session_id)

get_conversation_history(session_id) ==
    /\ result' = [op |-> "get_conversation_history", sid |-> session_id,
                  args |-> PyNone, err |-> "none",
                  ret |-> ReturnedHistory(sessions, session_id)]
    /\ UNCHANGED <<sessions, conversation_chain, clock, disk>>

\* what a caller appends to a list it was returned
CallerMessage ==
    [role |-> "user", content |-> "x", timestamp |-> 0, metadata |-> PyNone]

\* the items of a list after the caller's change: "append" or "clear"
ChangedItems(items, change) ==
    IF change = "append" THEN Append(items, CallerMessage) ELSE <<>>

\* the caller changes the list that get_conversation_history has just
\* returned; a session whose messages list that object is changes with it
mutate_returned(change) ==
    /\ result.op = "get_conversation_history"
    /\ LET items == ChangedItems(result.ret.items, change)
           owner == result.ret.shares
       IN  /\ sessions' =
                  IF owner # PyNone /\ owner \in Keys(sessions)
                  THEN Put(sessions, owner,
                           [Get(sessions, owner) EXCEPT !.messages = items])
                  ELSE sessions
           /\ result' = [op |-> "mutate_returned", sid |-> result.sid,
                         args |-> change, err |-> "none",
                         ret |-> [items |-> items, shares |-> owner]]
    /\ UNCHANGED <<conversation_chain, clock, disk>>

-----------------------------------------------------------------------------
(* setup_conversational_chain, query *)

setup_conversational_chain ==
    /\ conversation_chain' = "chain"
    /\ result' = [op |-> "setup_conversational_chain", sid |-> PyNone,
                  args |-> PyNone, err |-> "none", ret |-> PyNone]
    /\ UNCHANGED <<sessions, clock, disk>>

\* a query that does not look at the chain before it uses it
ChainNeverChecked(chain) == FALSE

\* not self.conversation_chain
ChainNotBuilt(chain) == chain = "None"

\* the metadata query attaches to the assistant message
AnswerMetadata == "{'source_documents': n, 'query_time': s}"

\* the store once query has made sure the session exists
EnsureSessionIn(store, session_id, t1, t2) ==
    IF session_id \notin Keys(store)
    THEN CreateSessionIn(store, session_id, t1, t2)
    ELSE store

\* a query that records the question only after the chain has answered
QuestionNotRecordedIn(store, session_id, question, t1, t2) == store

\* the store once query has recorded the question
QuestionRecordedIn(store, session_id, question, t1, t2) ==
    AddMessage(store, session_id, "user", question, PyNone, t1, t2).sessions

\* a query that does not record the answer
AnswerNotRecordedIn(store, session_id, answer, t1, t2) == store

\* the store once query has recorded the answer
AnswerRecordedIn(store, session_id, answer, t1, t2) ==
    AddMessage(store, session_id, "assistant", answer, AnswerMetadata,
               t1, t2).sessions

\* query(question, session_id); outcome is what the call of the chain does:
\* it raises, or it returns a response holding an answer
query(question, session_id, outcome) ==
    LET args == [question |-> question, outcome |-> outcome]
    IN
    IF ChainNotBuilt(conversation_chain)
    THEN /\ result' = [op |-> "query", sid |-> session_id, args |-> args,
                       err |-> "ValueError", ret |-> PyNone]
         /\ UNCHANGED <<sessions, conversation_chain, clock, disk>>
    ELSE \E t1 \in Later(clock) : \E t2 \in Later(t1) :
         \E t3 \in Later(t2) : \E t4 \in Later(t3) :
         LET created == EnsureSessionIn(sessions, session_id, t1, t2)
             asked   == QuestionRecordedIn(created, session_id, question,
                                           t3, t4)
         IN  /\ IF outcome.raises
                THEN /\ sessions' = asked
                     /\ clock' = t4
                     /\ result' = [op |-> "query", sid |-> session_id,
                                   args |-> args,
                                   err |-> "CollaboratorError",
                                   ret |-> PyNone]
                ELSE \E t5 \in Later(t4) : \E t6 \in Later(t5) :
                     /\ sessions' = AnswerRecordedIn(asked, session_id,
                                        outcome.answer, t5, t6)
                     /\ clock' = t6
                     /\ result' = [op |-> "query", sid |-> session_id,
                                   args |-> args, err |-> "none",
                                   ret |-> Len(Get(sessions', session_id)
                                                   .messages)]
             /\ UNCHANGED <<conversation_chain, disk>>

-----------------------------------------------------------------------------
(* datetime.isoformat, datetime.fromisoformat, json *)

\* an isoformat that drops the sub-second part
isoformat_seconds(t) == << t \div TicksPerSecond >>

\* datetime.isoformat(): "<seconds>" when the sub-second part is zero and
\* "<seconds>.<fraction>" otherwise, as the sequence of its numeric parts
isoformat(t) ==
    IF t % TicksPerSecond = 0
    THEN << t \div TicksPerSecond >>
    ELSE << t \div TicksPerSecond, t % TicksPerSecond >>

\* whether datetime.fromisoformat(text) returns rather than raises ValueError
IsIsoFormat(text) ==
    /\ Len(text) \in {1, 2}
    /\ Len(text) = 2 => text[2] \in 0 .. TicksPerSecond - 1

fromisoformat(text) ==
    text[1] * TicksPerSecond + (IF Len(text) = 2 THEN text[2] ELSE 0)

\* whether json.dump can encode a metadata value
IsJsonSerializable(metadata) == metadata # "{'k': <object>}"

\* what json.dump writes for a metadata value and what json.load reads back
JsonOf(metadata) == IF metadata = PyNone THEN "null" ELSE metadata
PyOf(json) == IF json = "null" THEN PyNone ELSE json

-----------------------------------------------------------------------------
(* save_sessions *)

MessageData(msg) ==
    [ role      |-> msg.role,
      content   |-> msg.content,
      timestamp |-> isoformat(msg.timestamp),
      metadata  |-> JsonOf(msg.metadata) ]

\* sessions_data as built by the loop of save_sessions
SessionsData(store) ==
    [ i \in DOMAIN store |->
        [ key  |-> store[i].key,
          data |-> [ session_id |-> store[i].session.session_id,
                     messages   |-> [ j \in DOMAIN store[i].session.messages |->
                                        MessageData(store[i].session.messages[j]) ],
                     created_at |-> isoformat(store[i].session.created_at),
                     updated_at |-> isoformat(store[i].session.updated_at),
                     metadata   |-> JsonOf(store[i].session.metadata) ] ] ]

AllSerializable(store) ==
    \A i \in DOMAIN store :
        /\ IsJsonSerializable(store[i].session.metadata)
        /\ \A j \in DOMAIN store[i].session.messages :
               IsJsonSerializable(store[i].session.messages[j].metadata)

\* the file once open(filepath, 'w') has truncated it and json.dump has
\* stopped part-way: a proper prefix of a JSON text
PartialFile == [state |-> "partial", doc |-> <<>>]

\* the file after save_sessions; io is what the file system does:
\* "ok", "open_fails" (open raises) or "write_fails" (a write raises)
FileAfterSave(file, store, io) ==
    IF io = "open_fails" THEN file
    ELSE IF ~AllSerializable(store) \/ io = "write_fails" THEN PartialFile
    ELSE [state |-> "json", doc |-> SessionsData(store)]

SaveError(store, io) ==
    IF io = "open_fails" THEN "OSError"
    ELSE IF ~AllSerializable(store) THEN "TypeError"
    ELSE IF io = "write_fails" THEN "OSError"
    ELSE "none"

\* a save_sessions that empties the store when it fails
save_sessions_dropping(io) ==
    /\ disk' = FileAfterSave(disk, sessions, io)
    /\ sessions' = IF SaveError(sessions, io) = "none" THEN sessions ELSE <<>>
    /\ result' = [op |-> "save_sessions", sid |-> PyNone, args |-> io,
                  err |-> SaveError(sessions, io), ret |-> PyNone]
    /\ UNCHANGED <<conversation_chain, clock>>

save_sessions(io) ==
    /\ disk' = FileAfterSave(disk, sessions, io)
    /\ result' = [op |-> "save_sessions", sid |-> PyNone, args |-> io,
                  err |-> SaveError(sessions, io), ret |-> PyNone]
    /\ UNCHANGED <<sessions, conversation_chain, clock>>

-----------------------------------------------------------------------------
(* load_sessions *)

MessageFields == {"role", "content", "timestamp"}

\* the exception the construction of a ConversationMessage raises, or "none"
MessageError(msg) ==
    IF ~(MessageFields \subseteq DOMAIN msg) THEN "KeyError"
    ELSE IF ~IsIsoFormat(msg.timestamp) THEN "ValueError"
    ELSE "none"

\* the exception the construction of a ConversationSession raises, or "none"
SessionError(data) ==
    IF "session_id" \notin DOMAIN data THEN "KeyError"
    ELSE IF "messages" \notin DOMAIN data THEN "KeyError"
    ELSE IF \E j \in DOMAIN data.messages : MessageError(data.messages[j]) # "none"
         THEN LET j == CHOOSE j \in DOMAIN data.messages :
                           /\ MessageError(data.messages[j]) # "none"
                           /\ \A k \in 1 .. j - 1 :
                                  MessageError(data.messages[k]) = "none"
              IN  MessageError(data.messages[j])
    ELSE IF "created_at" \notin DOMAIN data THEN "KeyError"
    ELSE IF ~IsIsoFormat(data.created_at) THEN "ValueError"
    ELSE IF "updated_at" \notin DOMAIN data THEN "KeyError"
    ELSE IF ~IsIsoFormat(data.updated_at) THEN "ValueError"
    ELSE "none"

\* dict.get("metadata")
GetMetadata(obj) ==
    IF "metadata" \in DOMAIN obj THEN PyOf(obj.metadata) ELSE PyNone

LoadedMessage(msg) ==
    [ role      |-> msg.role,
      content   |-> msg.content,
      timestamp |-> fromisoformat(msg.timestamp),
      metadata  |-> GetMetadata(msg) ]

LoadedSession(data) ==
    [ session_id |-> data.session_id,
      messages   |-> [ j \in DOMAIN data.messages |->
                         LoadedMessage(data.messages[j]) ],
      created_at |-> fromisoformat(data.created_at),
      updated_at |-> fromisoformat(data.updated_at),
      metadata   |-> GetMetadata(data) ]

\* the loop of load_sessions over the members of the document from member i
\* on, store holding what has been loaded so far
RECURSIVE LoadMembers(_, _, _)
LoadMembers(doc, i, store) ==
    IF i > Len(doc) THEN [sessions |-> store, err |-> "none"]
    ELSE IF SessionError(doc[i].data) # "none"
         THEN [sessions |-> store, err |-> SessionError(doc[i].data)]
    ELSE LoadMembers(doc, i + 1,
                     Put(store, doc[i].key, LoadedSession(doc[i].data)))

\* a clear that removes nothing
ClearedNothing(store) == store

\* self.sessions.clear()
Cleared(store) == <<>>

\* a load_sessions that clears the store before it reads the file
LoadIntoClearingFirst(store, file) ==
    IF file.state = "absent"
    THEN [sessions |-> Cleared(store), err |-> "FileNotFoundError"]
    ELSE IF file.state \in {"invalid", "partial"}
    THEN [sessions |-> Cleared(store), err |-> "JSONDecodeError"]
    ELSE IF file.state = "array"
    THEN [sessions |-> Cleared(store), err |-> "AttributeError"]
    ELSE LoadMembers(file.doc, 1, Cleared(store))

\* the store and the exception after load_sessions on a file
LoadInto(store, file) ==
    IF file.state = "absent"
    THEN [sessions |-> store, err |-> "FileNotFoundError"]
    ELSE IF file.state \in {"invalid", "partial"}
    THEN [sessions |-> store, err |-> "JSONDecodeError"]
    ELSE IF file.state = "array"
    THEN [sessions |-> Cleared(store), err |-> "AttributeError"]
    ELSE LoadMembers(file.doc, 1, Cleared(store))

load_sessions(file) ==
    /\ sessions' = LoadInto(sessions, file).sessions
    /\ result' = [op |-> "load_sessions", sid |-> PyNone, args |-> file,
                  err |-> LoadInto(sessions, file).err, ret |-> PyNone]
    /\ UNCHANGED <<conversation_chain, clock, disk>>

\* files other than the sessions file that load_sessions may be pointed at
EmptySessionData(id) ==
    [ session_id |-> id, messages |-> <<>>, created_at |-> <<0>>,
      updated_at |-> <<0>>, metadata |-> "null" ]

ForeignFiles ==
    { [state |-> "absent",  doc |-> <<>>],
      [state |-> "invalid", doc |-> <<>>],
      [state |-> "array",   doc |-> <<>>],
      \* the second session lacks "messages"
      [state |-> "json",
       doc |-> << [key |-> "s1", data |-> EmptySessionData("s1")],
                  [key |-> "s2",
                   data |-> [session_id |-> "s2", created_at |-> <<0>>,
                             updated_at |-> <<0>>]] >>],
      \* the message of the session has a timestamp that is no ISO date
      [state |-> "json",
       doc |-> << [key |-> "s1",
                   data |-> [EmptySessionData("s1") EXCEPT !.messages =
                       << [role |-> "user", content |-> "q",
                           timestamp |-> <<>>, metadata |-> "null"] >>]] >>],
      \* two sessions, of three messages and of none
      [state |-> "json",
       doc |-> << [key |-> "s1",
                   data |-> [EmptySessionData("s1") EXCEPT !.messages =
                       << [role |-> "user", content |-> "q",
                           timestamp |-> <<0>>, metadata |-> "null"],
                          [role |-> "assistant", content |-> "a",
                           timestamp |-> <<0>>, metadata |-> AnswerMetadata],
                          [role |-> "user", content |-> "q",
                           timestamp |-> <<0>>] >>]],
                  [key |-> "s2", data |-> EmptySessionData("s2")] >>],
      \* the member "s1" holds a session whose "session_id" is "s2"
      [state |-> "json",
       doc |-> << [key |-> "s1", data |-> EmptySessionData("s2")] >>] }

-----------------------------------------------------------------------------

\* the parts of the repository that are not running
NoStore ==
    /\ sessions = <<>>
    /\ conversation_chain = "None"
    /\ clock = 0
    /\ disk = [state |-> "absent", doc |-> <<>>]

NoCli ==
    /\ command = PyNone
    /\ session = PyNone
    /\ prompt_line = PyNone
    /\ console = PyNone

NoProcs == procs = <<>>

NoChat ==
    /\ chat_history = <<>>
    /\ history_file = [state |-> "absent", doc |-> <<>>]

NoGraph ==
    /\ state = PyNone
    /\ trace = <<>>

\* what the chain can do with a question
ChainOutcomes ==
    { [raises |-> TRUE,  answer |-> ""],
      [raises |-> FALSE, answer |-> "a"],
      [raises |-> FALSE, answer |-> ""] }

\* the ids create_session can generate
GeneratedIds == { NewSessionId(t) : t \in 0 .. MaxClock }

SessionIds == CallerIds \cup GeneratedIds

Init ==
    /\ sessions = <<>>
    /\ conversation_chain = "None"
    /\ clock = 0
    /\ disk = [state |-> "absent", doc |-> <<>>]
    /\ result = [op |-> "init", sid |-> PyNone, args |-> PyNone,
                 err |-> "none", ret |-> PyNone]
    /\ calls = 0
    /\ pc = "none"
    /\ NoCli
    /\ NoProcs
    /\ NoChat
    /\ NoGraph

\* one more call is made, while the run is within its bound
Counted ==
    /\ calls < MaxCalls
    /\ calls' = calls + 1

\* one more call is made on the store by a caller that is no command
Called ==
    /\ Counted
    /\ UNCHANGED <<pc, cliVars, procs, chatVars, graphVars>>

Next ==
    \/ \E id \in CallerIds \cup {PyNone} : Called /\ create_session(id)
    \/ \E id \in SessionIds : Called /\ delete_session(id)
    \/ \E id \in SessionIds, m \in MessageArgs :
           Called /\ add_message(id, m.role, m.content, m.metadata)
    \/ \E id \in SessionIds : Called /\ get_conversation_history(id)
    \/ \E change \in {"append", "clear"} : Called /\ mutate_returned(change)
    \/ Called /\ setup_conversational_chain
    \/ \E id \in SessionIds, o \in ChainOutcomes :
           Called /\ query("q", id, o)
    \/ \E io \in {"ok", "open_fails", "write_fails"} :
           Called /\ save_sessions(io)
    \/ \E file \in {disk} \cup ForeignFiles : Called /\ load_sessions(file)

Spec == Init /\ [][Next]_vars

-----------------------------------------------------------------------------
(* Properties *)

RoleContent(history) ==
    [ i \in DOMAIN history |-> <<history[i].role, history[i].content>> ]

IsPrefix(a, b) == Len(a) <= Len(b) /\ SubSeq(b, 1, Len(a)) = a

\* the same session ids, and under each id the same session
SameSessions(a, b) ==
    /\ Keys(a) = Keys(b)
    /\ \A k \in Keys(a) : Get(a, k) = Get(b, k)

\* C1: the history of a session just created is empty, and every successful
\* add_message extends the history of its session by exactly the role and
\* the content it was given, at the end; so the history of a fresh session
\* is the sequence of the calls, in call order
C1_HistoryInCallOrder ==
    [][ /\ result'.op = "create_session" =>
               ConversationHistory(sessions', result'.ret) = <<>>
        /\ (result'.op = "add_message" /\ result'.err = "none") =>
               RoleContent(ConversationHistory(sessions', result'.sid))
                 = Append(RoleContent(ConversationHistory(sessions, result'.sid)),
                          <<result'.args.role, result'.args.content>>)
      ]_vars

C1_Witness ==
    /\ result.op = "add_message"
    /\ result.err = "none"
    /\ Len(ConversationHistory(sessions, result.sid)) = 2
    /\ ConversationHistory(sessions, result.sid)[1].content
         # ConversationHistory(sessions, result.sid)[2].content

\* C2: a load_sessions that fails leaves the store as it was
C2_FailedLoadKeepsStore ==
    [][ (result'.op = "load_sessions" /\ result'.err # "none") =>
            sessions' = sessions ]_vars

\* C3: the id create_session generates is the id of no session in the store
C3_GeneratedIdIsNew ==
    [][ (result'.op = "create_session" /\ result'.sid = PyNone) =>
            result'.ret \notin Keys(sessions) ]_vars

\* C4: across create_session, add_message, query and
\* get_conversation_history the messages of a session that stays in the
\* store only grow at the end
C4_MessagesNeverShrink ==
    [][ result'.op \in {"create_session", "add_message", "query",
                        "get_conversation_history"} =>
            \A id \in Keys(sessions) \cap Keys(sessions') :
                IsPrefix(Get(sessions, id).messages,
                         Get(sessions', id).messages) ]_vars

\* C5: after a successful save_sessions, load_sessions of the file into an
\* empty store succeeds and yields the sessions that were saved
C5_SaveThenLoadReproduces ==
    (result.op = "save_sessions" /\ result.err = "none") =>
        /\ LoadInto(<<>>, disk).err = "none"
        /\ SameSessions(LoadInto(<<>>, disk).sessions, sessions)

C5_Witness ==
    /\ result.op = "save_sessions"
    /\ result.err = "none"
    /\ \E i \in DOMAIN sessions :
       \E j \in DOMAIN sessions[i].session.messages :
           /\ sessions[i].session.messages[j].timestamp % TicksPerSecond # 0
           /\ sessions[i].session.messages[j].metadata # PyNone

\* C6: add_message with a role that is neither 'user' nor 'assistant', on a
\* session of the store, fails and leaves the number of messages unchanged
C6_InvalidRoleRejected ==
    [][ ( /\ result'.op = "add_message"
          /\ result'.sid \in Keys(sessions)
          /\ result'.args.role \notin ValidRoles ) =>
            /\ result'.err # "none"
            /\ Len(ConversationHistory(sessions', result'.sid))
                 = Len(ConversationHistory(sessions, result'.sid)) ]_vars

\* C7: add_message on an id that is not in the store fails with the
\* not-found error and leaves the store unchanged
C7_AddToMissingSessionFails ==
    [][ (result'.op = "add_message" /\ result'.sid \notin Keys(sessions)) =>
            /\ result'.err = "ValueError"
            /\ sessions' = sessions ]_vars

C7_Witness ==
    /\ result.op = "add_message"
    /\ result.err = "ValueError"
    /\ sessions # <<>>
    /\ result.sid \notin Keys(sessions)

\* C8: when the chain raises in query, the error reaches the caller and the
\* session has gained exactly one message, the user's question, at the end
C8_QuestionRecordedWhenChainFails ==
    [][ ( /\ result'.op = "query"
          /\ conversation_chain # "None"
          /\ result'.args.outcome.raises ) =>
            LET before == ConversationHistory(sessions, result'.sid)
                after  == ConversationHistory(sessions', result'.sid)
            IN  /\ result'.err = "CollaboratorError"
                /\ Len(after) = Len(before) + 1
                /\ IsPrefix(before, after)
                /\ after[Len(after)].role = "user"
                /\ after[Len(after)].content = result'.args.question ]_vars

C8_Witness ==
    /\ result.op = "query"
    /\ result.err = "CollaboratorError"
    /\ LET h == ConversationHistory(sessions, result.sid)
       IN  /\ Len(h) >= 1
           /\ h[Len(h)].role = "user"

\* C9: a save_sessions that fails leaves a file that held a complete
\* document as it was
C9_FailedSaveKeepsFile ==
    [][ ( /\ result'.op = "save_sessions"
          /\ result'.err # "none"
          /\ disk.state = "json" ) =>
            disk' = disk ]_vars

\* C10: delete_session of an id in the store returns true, after which the
\* id is not listed and its history is empty; delete_session of an id not
\* in the store (as on a second call) returns false, raises nothing and
\* leaves the store unchanged
C10_DeleteSession ==
    [][ result'.op = "delete_session" =>
            IF result'.sid \in Keys(sessions)
            THEN /\ result'.ret = TRUE
                 /\ \A i \in DOMAIN list_sessions(sessions') :
                        list_sessions(sessions')[i] # result'.sid
                 /\ ConversationHistory(sessions', result'.sid) = <<>>
            ELSE /\ result'.ret = FALSE
                 /\ result'.err = "none"
                 /\ sessions' = sessions ]_vars

C10_Witness ==
    /\ result.op = "delete_session"
    /\ result.ret = TRUE
    /\ result.sid \notin Keys(sessions)
    /\ sessions # <<>>

\* C11: after create_session the returned id names an empty session, and
\* the store holds exactly one session more than before
C11_CreateAddsOneSession ==
    [][ result'.op = "create_session" =>
            /\ result'.ret \in Keys(sessions')
            /\ Get(sessions', result'.ret).messages = <<>>
            /\ Len(sessions') = Len(sessions) + 1 ]_vars

\* C12: while a session stays in the store under its id, create_session,
\* add_message, query and get_conversation_history leave its created_at as
\* it was
C12_CreatedAtImmutable ==
    [][ result'.op \in {"create_session", "add_message", "query",
                        "get_conversation_history"} =>
            \A id \in Keys(sessions) \cap Keys(sessions') :
                Get(sessions', id).created_at = Get(sessions, id).created_at
      ]_vars

C15_RolesValid ==
    \A i \in DOMAIN sessions :
        \A j \in DOMAIN sessions[i].session.messages :
            sessions[i].session.messages[j].role \in ValidRoles

\* C16: a change the caller makes to the list get_conversation_history
\* returned leaves the store as it was; for an id not in the store the call
\* returns an empty list, raises nothing and leaves the store as it was
C16_HistoryIsACopy ==
    [][ /\ result'.op = "mutate_returned" => sessions' = sessions
        /\ result'.op = "get_conversation_history" =>
               /\ result'.ret.items = ConversationHistory(sessions, result'.sid)
               /\ result'.err = "none"
               /\ sessions' = sessions
               /\ result'.sid \notin Keys(sessions) =>
                      result'.ret.items = <<>>
      ]_vars

C16_Witness ==
    /\ result.op = "mutate_returned"
    /\ result.sid \in Keys(sessions)
    /\ result.ret.items # ConversationHistory(sessions, result.sid)

\* the keys of the members of a JSON object
MemberKeys(doc) == { doc[i].key : i \in DOMAIN doc }

\* C17: after a successful load_sessions the ids of the store are exactly
\* the keys of the file, each session has as many messages as the file
\* gives it, and the history of a loaded session of no messages is empty
C17_LoadReplacesStore ==
    [][ (result'.op = "load_sessions" /\ result'.err = "none") =>
            LET doc == result'.args.doc
            IN  /\ Keys(sessions') = MemberKeys(doc)
                /\ Len(list_sessions(sessions')) = Len(doc)
                /\ \A i \in DOMAIN doc :
                       Len(ConversationHistory(sessions', doc[i].key))
                         = Len(doc[i].data.messages)
      ]_vars

\* a load, made after another call, of the file that has a session of three
\* messages and one of none
C17_Witness ==
    /\ result.op = "load_sessions"
    /\ result.err = "none"
    /\ calls >= 2
    /\ Keys(sessions) = {"s1", "s2"}
    /\ Len(ConversationHistory(sessions, "s1")) = 3
    /\ ConversationHistory(sessions, "s2") = <<>>

\* C18: load_sessions on a file that is no valid JSON raises the JSON parse
\* error and leaves the store as it was
C18_InvalidJsonKeepsStore ==
    [][ ( /\ result'.op = "load_sessions"
          /\ result'.args.state \in {"invalid", "partial"} ) =>
            /\ result'.err = "JSONDecodeError"
            /\ sessions' = sessions ]_vars

C18_Witness ==
    /\ result.op = "load_sessions"
    /\ result.err = "JSONDecodeError"
    /\ \E i \in DOMAIN sessions : sessions[i].session.messages # <<>>

\* C19: save_sessions, failed or successful, leaves the store as it was
C19_SaveKeepsStore ==
    [][ result'.op = "save_sessions" => sessions' = sessions ]_vars

C19_Witness ==
    /\ result.op = "save_sessions"
    /\ result.err # "none"
    /\ \E i \in DOMAIN sessions : sessions[i].session.messages # <<>>

\* C20: no message of a file that save_sessions wrote has empty content
C20_NoEmptyContentSaved ==
    disk.state = "json" =>
        \A i \in DOMAIN disk.doc :
            \A j \in DOMAIN disk.doc[i].data.messages :
                disk.doc[i].data.messages[j].content # ""

\* C21: add_message and query act on one session only: every other session
\* of the store is still there afterwards, with the same messages,
\* created_at, updated_at and metadata
C21_OtherSessionsUntouched ==
    [][ result'.op \in {"add_message", "query"} =>
            \A k \in Keys(sessions) \ {result'.sid} :
                /\ k \in Keys(sessions')
                /\ Get(sessions', k).messages = Get(sessions, k).messages
                /\ Get(sessions', k).created_at = Get(sessions, k).created_at
                /\ Get(sessions', k).updated_at = Get(sessions, k).updated_at
                /\ Get(sessions', k).metadata = Get(sessions, k).metadata
      ]_vars

\* a message has been added to one of two sessions
C21_Witness ==
    /\ result.op = "add_message"
    /\ result.err = "none"
    /\ Cardinality(Keys(sessions)) = 2
    /\ Len(Get(sessions, result.sid).messages) = 4

\* C24: a query that succeeds leaves the session in the store with exactly
\* two more messages than it had (none when the id was unknown): the 'user'
\* message holding the question, then the 'assistant' message holding the
\* answer; the message_count it returns is the number of messages the
\* session then has
C24_QueryAppendsQuestionAndAnswer ==
    [][ (result'.op = "query" /\ result'.err = "none") =>
            LET before == ConversationHistory(sessions, result'.sid)
                after  == ConversationHistory(sessions', result'.sid)
                n      == Len(before)
            IN  /\ result'.sid \in Keys(sessions')
                /\ Len(after) = n + 2
                /\ SubSeq(after, 1, n) = before
                /\ after[n + 1].role = "user"
                /\ after[n + 1].content = result'.args.question
                /\ after[n + 2].role = "assistant"
                /\ after[n + 2].content = result'.args.outcome.answer
                /\ result'.ret = Len(after)
      ]_vars

\* a query on an id that was not in the store has succeeded
C24_Witness ==
    /\ result.op = "query"
    /\ result.err = "none"
    /\ result.ret = 2
    /\ Keys(sessions) = {result.sid}

\* C25: a query made while the chain has not been built raises, and the
\* store is as it was: no session created, no message appended
C25_QueryWithoutChainKeepsStore ==
    [][ (result'.op = "query" /\ conversation_chain = "None") =>
            /\ result'.err # "none"
            /\ sessions' = sessions ]_vars

\* a query without the chain has been made on a session that is in the store
C25_Witness ==
    /\ result.op = "query"
    /\ result.err = "ValueError"
    /\ conversation_chain = "None"
    /\ result.sid \in Keys(sessions)

\* C26: every entry of the store is kept under the session_id of its session
C26_KeyIsSessionId ==
    \A i \in DOMAIN sessions : sessions[i].key = sessions[i].session.session_id

-----------------------------------------------------------------------------
(* conversational_cli.py: the chat command and the query command            *)

\* what is typed at the chat prompt, and the exceptions console.input raises
ChatLines == {" ", "Quit", "q", "history", "sessions", "save", "help", "what"}

PromptErrors == {"KeyboardInterrupt", "EOFError"}

\* str.strip() and str.lower() on those lines
Strip(text) ==
    IF text = " " THEN "" ELSE IF text = " hi" THEN "hi" ELSE text

Lower(text) == IF text = "Quit" THEN "quit" ELSE text

QuitWords == {"quit", "exit", "q"}

\* the lines that chat passes to system.query
IsQuestion(text) ==
    /\ text \notin PromptErrors \cup {""}
    /\ Lower(text) \notin QuitWords \cup {"history", "sessions", "save", "help"}

\* the message of the except clause that ends the command
ErrorLine(cmd) ==
    IF cmd = "chat" THEN "Error in chat mode" ELSE "Error processing query"

\* the system as the command constructs it, which has built the chain when a
\* vector store was found, and the options of the command; the command
\* starts one tick before the last reading of the clock
InitCli ==
    /\ sessions = <<>>
    /\ conversation_chain \in {"None", "chain"}
    /\ clock = MaxClock - 1
    /\ disk \in ForeignFiles
    /\ result = [op |-> "init", sid |-> PyNone, args |-> PyNone,
                 err |-> "none", ret |-> PyNone]
    /\ calls = 0
    /\ pc = "load"
    /\ command \in {"chat", "query"}
    /\ session \in CallerIds \cup {PyNone}
    /\ prompt_line = PyNone
    /\ console = PyNone
    /\ NoProcs
    /\ NoChat
    /\ NoGraph

\* if os.path.exists(sessions_file): system.load_sessions(sessions_file)
cli_load ==
    /\ pc = "load"
    /\ IF disk.state # "absent"
       THEN /\ load_sessions(disk)
            /\ pc' = IF result'.err = "none" THEN "session" ELSE "exit1"
            /\ console' = IF result'.err # "none" THEN ErrorLine(command)
                          ELSE IF command = "chat"
                               THEN "Loaded existing sessions"
                               ELSE console
       ELSE /\ pc' = "session"
            /\ UNCHANGED <<storeVars, result, console>>
    /\ UNCHANGED <<calls, command, session, prompt_line, procs, chatVars,
                   graphVars>>

\* a chat that creates the session whether or not the store has it
UsesExistingNever(store, id) == FALSE

\* not (session not in system.sessions)
UsesExisting(store, id) == id \in Keys(store)

\* the "Create or get session" step of chat
chat_session ==
    /\ pc = "session"
    /\ command = "chat"
    /\ IF session # PyNone
       THEN IF UsesExisting(sessions, session)
            THEN /\ console' = "Using existing session"
                 /\ UNCHANGED <<storeVars, result, session>>
            ELSE /\ create_session(session)
                 /\ console' = "Created new session"
                 /\ UNCHANGED session
       ELSE /\ create_session(PyNone)
            /\ session' = result'.ret
            /\ console' = "Created new session"
    /\ pc' = "loop"
    /\ UNCHANGED <<calls, command, prompt_line, procs, chatVars, graphVars>>

\* the "Create session if not provided" step of query
query_session ==
    /\ pc = "session"
    /\ command = "query"
    /\ IF session = PyNone
       THEN /\ create_session(PyNone)
            /\ session' = result'.ret
       ELSE UNCHANGED <<storeVars, result, session>>
    /\ pc' = "ask"
    /\ UNCHANGED <<calls, command, prompt_line, console, procs, chatVars,
                   graphVars>>

\* a loop that an exception ends
LoopAfterError(err) == IF err = "none" THEN "loop" ELSE "exit1"

\* where the chat loop is after an iteration that neither broke out of it nor
\* was interrupted: the except clause prints the exception and the loop goes on
LoopAfter(err) == "loop"

\* one iteration of the chat loop; input is the line typed or the exception
\* console.input raises, outcome what the chain does with a question, io what
\* the file system does with a save
chat_turn(input, outcome, io) ==
    /\ pc = "loop"
    /\ Counted
    /\ IF input = "KeyboardInterrupt"
       THEN /\ pc' = "save"
            /\ console' = "Interrupted by user"
            /\ prompt_line' = input
            /\ UNCHANGED <<storeVars, result>>
       ELSE IF input = "EOFError"
       THEN /\ pc' = LoopAfter(input)
            /\ console' = "Error processing question"
            /\ prompt_line' = input
            /\ UNCHANGED <<storeVars, result>>
       ELSE
         /\ prompt_line' = Strip(input)
         /\ IF Strip(input) = ""
            THEN /\ pc' = "loop"
                 /\ UNCHANGED <<storeVars, result, console>>
            ELSE IF Lower(Strip(input)) \in QuitWords
            THEN /\ pc' = "save"
                 /\ UNCHANGED <<storeVars, result, console>>
            ELSE IF Lower(Strip(input)) = "history"
            THEN /\ get_conversation_history(session)
                 /\ console' = "Conversation history"
                 /\ pc' = "loop"
            ELSE IF Lower(Strip(input)) = "sessions"
            THEN /\ result' = [op |-> "list_sessions", sid |-> PyNone,
                               args |-> PyNone, err |-> "none",
                               ret |-> list_sessions(sessions)]
                 /\ console' = "Available sessions"
                 /\ pc' = "loop"
                 /\ UNCHANGED storeVars
            ELSE IF Lower(Strip(input)) = "save"
            THEN /\ save_sessions(io)
                 /\ console' = IF result'.err = "none" THEN "Sessions saved"
                               ELSE "Error processing question"
                 /\ pc' = LoopAfter(result'.err)
            ELSE IF Lower(Strip(input)) = "help"
            THEN /\ console' = "Available commands"
                 /\ pc' = "loop"
                 /\ UNCHANGED <<storeVars, result>>
            ELSE /\ query(Strip(input), session, outcome)
                 /\ console' = IF result'.err = "none" THEN "Answer"
                               ELSE "Error processing question"
                 /\ pc' = LoopAfter(result'.err)
    /\ UNCHANGED <<command, session, procs, chatVars, graphVars>>

\* the question of the query command
query_ask(outcome) ==
    /\ pc = "ask"
    /\ query("what", session, outcome)
    /\ pc' = IF result'.err = "none" THEN "save" ELSE "exit1"
    /\ console' = IF result'.err = "none" THEN "Answer"
                  ELSE ErrorLine(command)
    /\ UNCHANGED <<calls, command, session, prompt_line, procs, chatVars,
                   graphVars>>

\* the save that ends either command; an exception it raises reaches the
\* outer except clause, which prints it and calls sys.exit(1)
cli_save(io) ==
    /\ pc = "save"
    /\ save_sessions(io)
    /\ pc' = IF result'.err = "none" THEN "done" ELSE "exit1"
    /\ console' = IF result'.err # "none" THEN ErrorLine(command)
                  ELSE IF command = "chat" THEN "Sessions saved"
                       ELSE console
    /\ UNCHANGED <<calls, command, session, prompt_line, procs, chatVars,
                   graphVars>>

NextCli ==
    \/ cli_load
    \/ chat_session
    \/ query_session
    \/ \E input \in ChatLines \cup PromptErrors, o \in ChainOutcomes,
          io \in {"ok", "open_fails", "write_fails"} : chat_turn(input, o, io)
    \/ \E o \in ChainOutcomes : query_ask(o)
    \/ \E io \in {"ok", "open_fails", "write_fails"} : cli_save(io)

SpecCli == InitCli /\ [][NextCli]_vars

\* C22: the session a command runs on is used as it is: once the id given
\* with --session is in the store, as it is after the load of a sessions file
\* that holds a session of that id, no step of chat or of the query command
\* removes the session or any of the messages it has; messages are only
\* added at the end
C22_ExistingSessionIsUsed ==
    [][ (session # PyNone /\ session \in Keys(sessions)) =>
            /\ session' = session
            /\ session \in Keys(sessions')
            /\ IsPrefix(Get(sessions, session).messages,
                        Get(sessions', session).messages) ]_vars

\* chat was started with the id of a loaded session of three messages and a
\* question has been answered in it
C22_Witness ==
    /\ command = "chat"
    /\ pc = "loop"
    /\ console = "Answer"
    /\ session = "s1"
    /\ Len(Get(sessions, session).messages) = 5

\* C23: in the chat loop an exception raised by the processing of a question
\* is printed and the loop goes on; the loop is left only by quit, exit or q
\* or by a keyboard interrupt, and the step after the loop is the save of the
\* sessions, which puts the whole store in the sessions file when it succeeds
C23_ChatLoopSurvivesErrors ==
    [][ /\ (pc = "loop" /\ calls' # calls /\ IsQuestion(prompt_line')
              /\ result'.err # "none") =>
               /\ result'.op = "query"
               /\ pc' = "loop"
               /\ console' = "Error processing question"
        /\ (pc = "loop" /\ pc' # "loop") =>
               /\ pc' = "save"
               /\ \/ prompt_line' = "KeyboardInterrupt"
                  \/ Lower(prompt_line') \in QuitWords
        /\ (pc = "save" /\ command = "chat") =>
               /\ result'.op = "save_sessions"
               /\ pc' \in {"done", "exit1"}
               /\ pc' = "done" =>
                      disk' = [state |-> "json", doc |-> SessionsData(sessions)]
      ]_vars

\* a chat in which the chain failed on a question has been left and saved
C23_Witness ==
    /\ command = "chat"
    /\ pc = "done"
    /\ session \in Keys(sessions)
    /\ Len(Get(sessions, session).messages) = 1
    /\ disk = [state |-> "json", doc |-> SessionsData(sessions)]

-----------------------------------------------------------------------------
(* conversational_cli.py: two chat commands on one sessions file            *)

Processes == {"p1", "p2"}

\* the --session option of each process
SessionOf(p) == IF p = "p1" THEN "s1" ELSE "s2"

\* the store after system.query(question, session_id) on a chain that is
\* built, every clock reading of the call being t
QueryIn(store, session_id, question, outcome, t) ==
    LET created == EnsureSessionIn(store, session_id, t, t)
        asked   == QuestionRecordedIn(created, session_id, question, t, t)
    IN  IF outcome.raises
        THEN asked
        ELSE AnswerRecordedIn(asked, session_id, outcome.answer, t, t)

\* a save that keeps the members of the file that the store does not have
ProcessSaveMerging(file, store, io) ==
    IF file.state = "json" /\ SaveError(store, io) = "none"
    THEN [state |-> "json",
          doc |-> SelectSeq(file.doc, LAMBDA m : m.key \notin Keys(store))
                    \o SessionsData(store)]
    ELSE FileAfterSave(file, store, io)

\* the sessions file after the system.save_sessions(sessions_file) of a
\* process
ProcessSave(file, store, io) == FileAfterSave(file, store, io)

\* two processes, each with a system of its own, before they load the file
InitShared ==
    /\ procs = [p \in Processes |->
                   [pc |-> "load", session |-> SessionOf(p), sessions |-> <<>>]]
    /\ disk \in ForeignFiles
    /\ clock = MaxClock - 1
    /\ sessions = <<>>
    /\ conversation_chain = "chain"
    /\ result = [op |-> "init", sid |-> PyNone, args |-> PyNone,
                 err |-> "none", ret |-> PyNone]
    /\ calls = 0
    /\ pc = "none"
    /\ NoCli
    /\ NoChat
    /\ NoGraph

\* process p loads the sessions file if there is one, then creates its
\* session or uses the one it has loaded
proc_start(p) ==
    /\ procs[p].pc = "load"
    /\ \E t \in Later(clock) :
       LET own    == procs[p].sessions
           id     == procs[p].session
           loaded == IF disk.state # "absent" THEN LoadInto(own, disk)
                     ELSE [sessions |-> own, err |-> "none"]
       IN  /\ IF loaded.err # "none"
              THEN /\ procs' = [procs EXCEPT ![p].pc = "exit1",
                                             ![p].sessions = loaded.sessions]
                   /\ clock' = clock
              ELSE /\ procs' = [procs EXCEPT
                         ![p].pc = "loop",
                         ![p].sessions =
                             IF UsesExisting(loaded.sessions, id)
                             THEN loaded.sessions
                             ELSE CreateSessionIn(loaded.sessions, id, t, t)]
                   /\ clock' = t
           /\ result' = [op |-> "chat_start", sid |-> id, args |-> p,
                         err |-> loaded.err, ret |-> PyNone]
    /\ UNCHANGED <<sessions, conversation_chain, disk, calls, pc, cliVars,
                   chatVars, graphVars>>

\* process p passes a question to its system
proc_ask(p, outcome) ==
    /\ procs[p].pc = "loop"
    /\ calls < MaxCalls
    /\ calls' = calls + 1
    /\ \E t \in Later(clock) :
         /\ procs' = [procs EXCEPT ![p].sessions =
                         QueryIn(procs[p].sessions, procs[p].session, "what",
                                 outcome, t)]
         /\ clock' = t
    /\ result' = [op |-> "chat_question", sid |-> procs[p].session,
                  args |-> p,
                  err |-> IF outcome.raises THEN "CollaboratorError"
                          ELSE "none",
                  ret |-> PyNone]
    /\ UNCHANGED <<sessions, conversation_chain, disk, pc, cliVars, chatVars,
                   graphVars>>

\* process p is told to quit and saves its sessions
proc_quit(p, io) ==
    /\ procs[p].pc = "loop"
    /\ disk' = ProcessSave(disk, procs[p].sessions, io)
    /\ procs' = [procs EXCEPT ![p].pc =
                    IF SaveError(procs[p].sessions, io) = "none" THEN "done"
                    ELSE "exit1"]
    /\ result' = [op |-> "chat_save", sid |-> procs[p].session, args |-> p,
                  err |-> SaveError(procs[p].sessions, io), ret |-> PyNone]
    /\ UNCHANGED <<sessions, conversation_chain, clock, calls, pc, cliVars,
                   chatVars, graphVars>>

NextShared ==
    \/ \E p \in Processes : proc_start(p)
    \/ \E p \in Processes, o \in ChainOutcomes : proc_ask(p, o)
    \/ \E p \in Processes, io \in {"ok", "open_fails", "write_fails"} :
           proc_quit(p, io)

SpecShared == InitShared /\ [][NextShared]_vars

BothSaved == \A p \in Processes : procs[p].pc = "done"

\* the sessions that a load of the sessions file gives
FileSessions == LoadInto(<<>>, disk).sessions

\* C27 as it is stated: once both processes have saved, the file holds the
\* session of each process with the messages that process has in it
C27_NoLostUpdate ==
    BothSaved =>
        \A p \in Processes :
            /\ procs[p].session \in Keys(FileSessions)
            /\ Get(FileSessions, procs[p].session).messages
                 = Get(procs[p].sessions, procs[p].session).messages

\* C27, amended: once both processes have saved, the file is what the
\* process that saved last wrote: the whole of its own store and nothing else
C27_LastSaveWins ==
    BothSaved =>
        /\ result.op = "chat_save"
        /\ disk = [state |-> "json",
                   doc |-> SessionsData(procs[result.args].sessions)]

\* both processes have saved and the file lacks the session of one of them,
\* which has messages in it
C27_Witness ==
    /\ BothSaved
    /\ \E p \in Processes :
           /\ procs[p].session \notin Keys(FileSessions)
           /\ Len(Get(procs[p].sessions, procs[p].session).messages) = 2

-----------------------------------------------------------------------------
(* simple-ollama-chat-cli.py (and the same load_chat_history and            *)
(* save_chat_history in simple-ollama-chat-streamlit.py)                    *)
(*                                                                         *)
(* A JSON value of the history file is a record with a type: a string or   *)
(* a number or an array has its text, an object has the members it holds   *)
(* as its other fields.  The file is [state, doc]: absent, invalid (no     *)
(* JSON, or unreadable), "object" for a document that is no list, or       *)
(* "list" with the items in doc.                                           *)

JStr(text) == [type |-> "string", text |-> text]

JNumber == [type |-> "number", text |-> "1"]

JArray == [type |-> "array", text |-> "['user']"]

\* the items a list in the file may hold
JsonItems ==
    { [type |-> "object", role |-> r, content |-> c] :
          r \in {JStr("user"), JStr("assistant"), JStr("system"), JArray},
          c \in {JStr("hi"), JNumber} }
    \cup { [type |-> "object", role |-> JStr("user")],
           [type |-> "object", role |-> JStr("user"), content |-> JStr("hi"),
            timestamp |-> JNumber],
           JStr("hi") }

HistoryFiles ==
    { [state |-> "absent",  doc |-> <<>>],
      [state |-> "invalid", doc |-> <<>>],
      [state |-> "object",  doc |-> <<>>] }
    \cup { [state |-> "list", doc |-> d] :
               d \in UNION { [1 .. n -> JsonItems] : n \in 0 .. MaxItems } }

\* whether hash(value) returns rather than raises TypeError
IsHashable(value) == value.type \notin {"array", "object"}

\* the loop of load_chat_history from item i on, valid holding the messages
\* appended so far; the TypeError that the test of an unhashable role for
\* membership in the set raises is caught by the except clause, which
\* returns []
RECURSIVE LoadItems(_, _, _)
LoadItems(items, i, valid) ==
    IF i > Len(items) THEN valid
    ELSE LET item == items[i] IN
         IF item.type = "object" /\ "role" \in DOMAIN item
                                 /\ "content" \in DOMAIN item
         THEN IF ~IsHashable(item.role) THEN <<>>
              ELSE IF /\ item.role.type = "string"
                      /\ item.role.text \in {"user", "assistant"}
                      /\ item.content.type = "string"
              THEN LoadItems(items, i + 1,
                             Append(valid, [role    |-> item.role.text,
                                            content |-> item.content.text]))
              ELSE LoadItems(items, i + 1, valid)
         ELSE LoadItems(items, i + 1, valid)

load_chat_history(file) ==
    IF file.state # "list" THEN <<>> ELSE LoadItems(file.doc, 1, <<>>)

\* json.dumps(history)
HistoryFileOf(entries) ==
    [state |-> "list",
     doc |-> [ i \in DOMAIN entries |->
                 [type    |-> "object",
                  role    |-> JStr(entries[i].role),
                  content |-> JStr(entries[i].content)] ]]

\* the file after save_chat_history(history), which lets no exception out;
\* io is what the file system does with write_text
save_chat_history(file, entries, io) ==
    IF io = "ok" THEN HistoryFileOf(entries)
    ELSE IF io = "open_fails" THEN file
    ELSE [state |-> "invalid", doc |-> <<>>]

\* what model.stream does: the chunks it yields, and whether it then raises
StrChunk(text) == [type |-> "string", text |-> text]

StreamOutcomes ==
    { [chunks |-> <<StrChunk("a"), StrChunk("b")>>, raises |-> FALSE],
      [chunks |-> <<StrChunk("a"), JArray>>,        raises |-> FALSE],
      [chunks |-> <<>>,                             raises |-> FALSE],
      [chunks |-> <<StrChunk("a")>>,                raises |-> TRUE] }

\* response_accumulator after the chunks from chunk i on
RECURSIVE Accumulated(_, _, _)
Accumulated(chunks, i, response) ==
    IF i > Len(chunks) THEN response
    ELSE IF chunks[i].type # "string"
         THEN Accumulated(chunks, i + 1, response)
         ELSE Accumulated(chunks, i + 1, response \o chunks[i].text)

\* a turn that keeps the answer only
HistoryAfterAnswerOnly(entries, text, response) ==
    Append(entries, [role |-> "assistant", content |-> response])

\* history after the two appends that end a turn
HistoryAfterTurn(entries, text, response) ==
    Append(Append(entries, [role |-> "user", content |-> text]),
           [role |-> "assistant", content |-> response])

\* what is typed at the prompt of the simple chat
SimpleChatLines == {" ", " hi", "what", "Quit", ":q"}

SimpleQuitWords == {"exit", "quit", ":q"}

\* the history files a chat starts on: none, or one that an earlier chat saved
EarlierFiles ==
    { [state |-> "absent", doc |-> <<>>],
      HistoryFileOf(<< [role |-> "user", content |-> "hi"],
                       [role |-> "assistant", content |-> "ab"] >>) }

InitChat ==
    /\ chat_history = <<>>
    /\ history_file \in EarlierFiles
    /\ pc = "start"
    /\ result = [op |-> "init", sid |-> PyNone, args |-> PyNone,
                 err |-> "none", ret |-> PyNone]
    /\ calls = 0
    /\ NoStore
    /\ NoCli
    /\ NoProcs
    /\ NoGraph

\* the start of chat: the history is loaded and the model constructed
simple_chat_start(model_ok) ==
    /\ pc = "start"
    /\ chat_history' = load_chat_history(history_file)
    /\ pc' = IF model_ok THEN "prompt" ELSE "aborted"
    /\ result' = [op |-> "load_chat_history", sid |-> PyNone,
                  args |-> history_file, err |-> "none",
                  ret |-> chat_history']
    /\ UNCHANGED <<history_file, calls, storeVars, cliVars, procs, graphVars>>

\* one iteration of the chat loop; input is the line typed or the exception
\* click.prompt raises, stream what model.stream does, io what the file
\* system does with the save
simple_chat_turn(input, stream, io) ==
    /\ pc = "prompt"
    /\ Counted
    /\ LET normalized == Strip(input)
           args == [input |-> input, io |-> io]
       IN  IF \/ input \in PromptErrors
              \/ Lower(normalized) \in SimpleQuitWords
           THEN /\ pc' = "done"
                /\ result' = [op |-> "leave", sid |-> PyNone, args |-> PyNone,
                              err |-> "none", ret |-> PyNone]
                /\ UNCHANGED chatVars
           ELSE IF normalized = ""
           THEN /\ pc' = "prompt"
                /\ result' = [op |-> "skip", sid |-> PyNone, args |-> PyNone,
                              err |-> "none", ret |-> PyNone]
                /\ UNCHANGED chatVars
           ELSE IF stream.raises
           THEN /\ pc' = "aborted"
                /\ result' = [op |-> "turn", sid |-> PyNone, args |-> args,
                              err |-> "ClickException", ret |-> PyNone]
                /\ UNCHANGED chatVars
           ELSE LET response == Accumulated(stream.chunks, 1, "") IN
                /\ chat_history' = HistoryAfterTurn(chat_history, normalized,
                                                    response)
                /\ history_file' = save_chat_history(history_file,
                                                     chat_history', io)
                /\ pc' = "prompt"
                /\ result' = [op |-> "turn", sid |-> PyNone, args |-> args,
                              err |-> "none", ret |-> response]
    /\ UNCHANGED <<storeVars, cliVars, procs, graphVars>>

NextChat ==
    \/ \E model_ok \in BOOLEAN : simple_chat_start(model_ok)
    \/ \E input \in SimpleChatLines \cup PromptErrors, s \in StreamOutcomes,
          io \in {"ok", "open_fails", "write_fails"} :
           simple_chat_turn(input, s, io)

SpecChat == InitChat /\ [][NextChat]_vars

\* load_chat_history on each of the history files
InitLoad ==
    /\ chat_history = <<>>
    /\ history_file \in HistoryFiles
    /\ pc = "start"
    /\ result = [op |-> "init", sid |-> PyNone, args |-> PyNone,
                 err |-> "none", ret |-> PyNone]
    /\ calls = 0
    /\ NoStore
    /\ NoCli
    /\ NoProcs
    /\ NoGraph

NextLoad == \E model_ok \in BOOLEAN : simple_chat_start(model_ok)

SpecLoad == InitLoad /\ [][NextLoad]_vars

\* C28: the history grows only by whole turns.  A turn whose stream ends
\* without an exception appends the 'user' entry of the text typed and then
\* the 'assistant' entry of the response, and passes the whole history to
\* the save, which puts it in the history file when the write succeeds; a
\* turn whose stream raises leaves the history and the file as they were
C28_HistoryGrowsByWholeTurns ==
    [][ /\ (result'.op = "turn" /\ calls' # calls /\ result'.err = "none") =>
               /\ chat_history' = chat_history \o
                      << [role |-> "user",
                          content |-> Strip(result'.args.input)],
                         [role |-> "assistant", content |-> result'.ret] >>
               /\ result'.args.io = "ok" =>
                      history_file' = HistoryFileOf(chat_history')
        /\ (result'.op = "turn" /\ calls' # calls /\ result'.err # "none") =>
               /\ chat_history' = chat_history
               /\ history_file' = history_file
        /\ pc = "prompt" =>
               \/ chat_history' = chat_history /\ history_file' = history_file
               \/ /\ Len(chat_history') = Len(chat_history) + 2
                  /\ IsPrefix(chat_history, chat_history')
                  /\ chat_history'[Len(chat_history) + 1].role = "user"
                  /\ chat_history'[Len(chat_history) + 2].role = "assistant"
      ]_vars

\* two turns have been made on a loaded history of two entries, and the
\* file holds the six entries
C28_Witness ==
    /\ result.op = "turn"
    /\ result.err = "none"
    /\ Len(chat_history) = 6
    /\ history_file = HistoryFileOf(chat_history)

\* an item of the file that is an object with a role of user or assistant
\* and a content that is a string
IsWellFormedItem(item) ==
    /\ item.type = "object"
    /\ "role" \in DOMAIN item
    /\ "content" \in DOMAIN item
    /\ item.role \in {JStr("user"), JStr("assistant")}
    /\ item.content.type = "string"

\* the well-formed items of a list, in their order, as role and content
WellFormedEntries(items) ==
    LET kept == SelectSeq(items, IsWellFormedItem)
    IN  [ i \in DOMAIN kept |-> [role    |-> kept[i].role.text,
                                 content |-> kept[i].content.text] ]

\* C29: load_chat_history raises nothing; it returns the empty list for a
\* file that is missing, is no JSON or holds no list, and for a list exactly
\* its well-formed items, in their order, each as its role and content
C29_LoadKeepsWellFormedEntries ==
    [][ result'.op = "load_chat_history" =>
            /\ result'.err = "none"
            /\ result'.ret = IF history_file.state # "list" THEN <<>>
                             ELSE WellFormedEntries(history_file.doc)
      ]_vars

-----------------------------------------------------------------------------
(* rag_system.py: query_with_langgraph and the graph it runs                *)

\* str(e) of the exceptions a collaborator raises; it is empty for an
\* exception raised without arguments
ExceptionMessages == {"", "timeout"}

\* what rag_system.retriever.get_relevant_documents does
RetrieveOutcomes ==
    { [raises |-> FALSE, docs |-> d, message |-> ""] :
          d \in {<<>>, <<"d1">>, <<"d1", "d2">>} }
    \cup { [raises |-> TRUE, docs |-> <<>>, message |-> m] :
               m \in ExceptionMessages }

\* what rag_system.llm.invoke does
GenerateOutcomes ==
    { [raises |-> FALSE, answer |-> a, message |-> ""] : a \in {"", "a"} }
    \cup { [raises |-> TRUE, answer |-> "", message |-> m] :
               m \in ExceptionMessages }

\* what the construction and compilation of the graph does: the library may
\* refuse a graph to which no entry point was given
CompileOutcomes ==
    { [raises |-> FALSE, message |-> ""],
      [raises |-> TRUE,  message |-> "Graph must have an entrypoint"] }

\* initial_state
InitialState(text) ==
    [question |-> text, answer |-> "", source_documents |-> <<>>,
     error |-> ""]

\* an error field that is the message of the exception alone
RetrieveErrorBare(message) == message

RetrieveError(message) == "Error retrieving documents: " \o message

GenerateError(message) == "Error generating answer: " \o message

\* the state the retrieve node returns
retrieve_documents(st, outcome) ==
    IF outcome.raises
    THEN [st EXCEPT !.error = RetrieveError(outcome.message)]
    ELSE [st EXCEPT !.source_documents = outcome.docs]

\* the state the generate node returns
generate_answer(st, outcome) ==
    IF outcome.raises
    THEN [st EXCEPT !.error = GenerateError(outcome.message)]
    ELSE [st EXCEPT !.answer = outcome.answer]

\* the dictionary query_with_langgraph returns for the final state
ResultOf(st) ==
    [answer |-> st.answer, source_documents |-> st.source_documents,
     error |-> st.error]

\* the dictionary its except clause returns
ErrorResult(message) ==
    [answer |-> "", source_documents |-> <<>>, error |-> message]

InitGraph ==
    /\ pc = "idle"
    /\ state = PyNone
    /\ trace = <<>>
    /\ result = [op |-> "init", sid |-> PyNone, args |-> PyNone,
                 err |-> "none", ret |-> PyNone]
    /\ calls = 0
    /\ NoStore
    /\ NoCli
    /\ NoProcs
    /\ NoChat

\* query_with_langgraph is called: the graph is created and, unless that
\* raises, invoked on the initial state
graph_invoke(text, compile) ==
    /\ pc = "idle"
    /\ Counted
    /\ trace' = <<>>
    /\ IF compile.raises
       THEN /\ pc' = "idle"
            /\ result' = [op |-> "query_with_langgraph", sid |-> PyNone,
                          args |-> text, err |-> "none",
                          ret |-> ErrorResult(compile.message)]
            /\ UNCHANGED state
       ELSE /\ pc' = "retrieve"
            /\ state' = InitialState(text)
            /\ UNCHANGED result
    /\ UNCHANGED <<storeVars, cliVars, procs, chatVars>>

\* the node "retrieve", the tail of no edge, runs first
graph_retrieve(outcome) ==
    /\ pc = "retrieve"
    /\ state' = retrieve_documents(state, outcome)
    /\ trace' = Append(trace, [node |-> "retrieve", failed |-> outcome.raises])
    /\ pc' = "generate"
    /\ UNCHANGED <<result, calls, storeVars, cliVars, procs, chatVars>>

\* the edge from "retrieve" leads to the node "generate"
graph_generate(outcome) ==
    /\ pc = "generate"
    /\ state' = generate_answer(state, outcome)
    /\ trace' = Append(trace, [node |-> "generate", failed |-> outcome.raises])
    /\ pc' = "return"
    /\ UNCHANGED <<result, calls, storeVars, cliVars, procs, chatVars>>

\* the edge from "generate" leads to END, and the final state is returned
graph_return ==
    /\ pc = "return"
    /\ result' = [op |-> "query_with_langgraph", sid |-> PyNone,
                  args |-> state.question, err |-> "none",
                  ret |-> ResultOf(state)]
    /\ pc' = "idle"
    /\ UNCHANGED <<state, trace, calls, storeVars, cliVars, procs, chatVars>>

NextGraph ==
    \/ \E text \in {"what"}, c \in CompileOutcomes : graph_invoke(text, c)
    \/ \E o \in RetrieveOutcomes : graph_retrieve(o)
    \/ \E o \in GenerateOutcomes : graph_generate(o)
    \/ graph_return

SpecGraph == InitGraph /\ [][NextGraph]_vars

\* the names of the nodes that have run, in their order
NodesRun(t) == [ i \in DOMAIN t |-> t[i].node ]

\* C30: query_with_langgraph raises nothing and returns a dictionary; the
\* nodes run in the order retrieve, generate, and generate runs whether or
\* not retrieve failed; when either node failed, the 'error' of the
\* dictionary returned is not empty
C30_FailuresAreValues ==
    [][ /\ IsPrefix(NodesRun(trace'), <<"retrieve", "generate">>)
        /\ pc = "return" =>
               /\ NodesRun(trace) = <<"retrieve", "generate">>
               /\ result'.op = "query_with_langgraph"
               /\ result'.err = "none"
               /\ (trace[1].failed \/ trace[2].failed) =>
                      result'.ret.error # ""
        /\ (pc = "idle" /\ pc' = "idle" /\ calls' # calls) =>
               /\ result'.op = "query_with_langgraph"
               /\ result'.err = "none"
      ]_vars

\* a call has returned in which retrieve failed with an exception of no
\* message and generate then gave an answer
C30_Witness ==
    /\ pc = "idle"
    /\ result.op = "query_with_langgraph"
    /\ Len(trace) = 2
    /\ trace[1].failed
    /\ ~trace[2].failed
    /\ result.ret.answer = "a"
    /\ result.ret.error = RetrieveError("")

====
